---- MODULE Spec2Model ----
(***************************************************************************)
(* Rank visualizer: the App component (rank state, derived status and      *)
(* metrics, the AutoDriver loop) and the MatrixParticles component (the    *)
(* particle field and its render loop), as one state machine.              *)
(*                                                                         *)
(* Numbers.  JavaScript numbers are modelled in fixed point: scalars       *)
(* (metrics, the AutoDriver target, angles, seconds) in 1/Milli, particle  *)
(* coordinates and velocities in 1/SubPixel of a pixel.  Math.random()     *)
(* returns one of the RandLevels values k/RandLevels, 0 <= k < RandLevels, *)
(* decided by the state `rng` of its generator, which every draw advances. *)
(*                                                                         *)
(* Scheduling.  requestAnimationFrame callbacks wait in `rafQueue` until   *)
(* the browser runs them.  A state update made inside a DOM event handler  *)
(* (click, change) is rendered and its effects are run before the handler's*)
(* task ends; an update made inside an animation-frame callback is         *)
(* rendered later and its effects are passive: they run in a later task,   *)
(* so callbacks that are already queued can run first.                     *)
(***************************************************************************)
EXTENDS Integers, Sequences, FiniteSets

\* ---------------------------------------------------------------- bounds
Milli == 1000
SubPixel == 16
RandLevels == 4
MaxHandle == 4
MaxEvents == 3

\* ------------------------------------------------------ program constants
InitialRank == 50
CollapseBelow == 30
ExplodeAbove == 70
VramCeiling == 80
SliderMin == 0
SliderMax == 100
PopulationSize == 150
LinkGate == 80
LinkDistance == 60
RepelRadius == 100
DefaultWidth == 600
DefaultHeight == 400

\* ------------------------------------------------------------- arithmetic
Abs(n) == IF n < 0 THEN -n ELSE n

Max(a, b) == IF a > b THEN a ELSE b

Min(a, b) == IF a < b THEN a ELSE b

\* Math.round on a rational num/den (den > 0): the nearest integer, halves up.
Round(num, den) == (2 * num + den) \div (2 * den)

\* Math.random(): the level of the n-th value drawn from generator state seed.
Random(seed, n) ==
    LET s == (seed + n) % (RandLevels * RandLevels)
    IN  (s + (s \div RandLevels)) % RandLevels

\* The generator state after n draws.
Advance(seed, n) == (seed + n) % (RandLevels * RandLevels)

\* (Math.random() - 0.5) * span, in units of 1/unit, for the level k drawn.
Centered(k, span, unit) == ((2 * k - RandLevels) * span * unit) \div (2 * RandLevels)

\* Math.sin, per mille, on an angle in 1/1000 radian, to the nearest eighth turn.
SinTable == <<0, 707, 1000, 707, 0, -707, -1000, -707>>

Sin(a) == SinTable[(((a * 8 + 3142) \div 6283) % 8) + 1]

Cos(a) == Sin(a + 1571)

\* Math.exp(k / 5), in 1/Milli (e^0.2 = 1.221...).  Values above 1000 are kept
\* as they are: the ranks of the slider stay below e^6 < 404.
RECURSIVE ExpFifth(_)
ExpFifth(k) ==
    IF k <= 0 THEN Milli
    ELSE LET prev == ExpFifth(k - 1)
         IN  IF prev > 1000 * Milli THEN prev ELSE (prev * 1221) \div 1000

\* Math.pow(10, k / 5) as mantissa (per mille) and decimal exponent.
Pow10Table == <<1000, 1585, 2512, 3981, 6310>>

Pow10Fifth(k) == [m |-> Pow10Table[(k % 5) + 1], e |-> k \div 5]

\* ------------------------------------------------- the slider's value text
DigitChars == <<"0", "1", "2", "3", "4", "5", "6", "7", "8", "9">>

\* The DOM's text for a range input's integer value n >= 0.
RECURSIVE ValueText(_)
ValueText(n) ==
    IF n < 10 THEN <<DigitChars[n + 1]>>
    ELSE Append(ValueText(n \div 10), DigitChars[(n % 10) + 1])

DigitOf(c) == CHOOSE d \in 0..9 : DigitChars[d + 1] = c

\* parseInt(text, radix) on a text of decimal digit characters.
RECURSIVE ParseIntFrom(_, _, _)
ParseIntFrom(text, radix, acc) ==
    IF text = <<>> \/ DigitOf(Head(text)) >= radix THEN acc
    ELSE ParseIntFrom(Tail(text), radix, acc * radix + DigitOf(Head(text)))

\* parseInt(text, 16): the radix argument mistaken.
ParseIntHex(text) == ParseIntFrom(text, 16, 0)

ParseInt(text) == ParseIntFrom(text, 10, 0)

\* ------------------------------------------------------- RegimeClassifier
\* The thresholds taken inclusively: rank <= 30, rank >= 70.
StatusNoBoundary(r) ==
    IF r <= CollapseBelow THEN "COLLAPSED"
    ELSE IF r >= ExplodeAbove THEN "EXPLODING"
    ELSE "STABLE"

Status(r) ==
    IF r < CollapseBelow THEN "COLLAPSED"
    ELSE IF r > ExplodeAbove THEN "EXPLODING"
    ELSE "STABLE"

\* The four raw scalars of the regime; k is the level Math.random() returns.
RawMetrics(r, st, k) ==
    IF st = "COLLAPSED" THEN
        [loss |-> (25 * Milli) \div 10 + ((30 - r) * Milli) \div 10,
         vram |-> 12 * Milli + (r * Milli) \div 10,
         iq   |-> r * 2 * Milli,
         grad |-> [m |-> 1000, e |-> -3]]
    ELSE IF st = "EXPLODING" THEN
        [loss |-> Milli \div 2 + ExpFifth(r - 70),
         vram |-> 40 * Milli + (r - 70) * 2 * Milli,
         iq   |-> 100 * Milli - (r - 70) * 3 * Milli,
         grad |-> Pow10Fifth(r - 60)]
    ELSE
        [loss |-> (4 * Milli) \div 10 - (Abs(50 - r) * Milli) \div 100,
         vram |-> 24 * Milli + ((r - 30) * 4 * Milli) \div 10,
         iq   |-> 140 * Milli - Abs(50 - r) * Milli,
         grad |-> [m |-> 1000 + Centered(k, 100, 1), e |-> 0]]

\* The return of metrics without Math.min(80, vram).
ClampNoCeiling(raw) ==
    [loss |-> Max(0, raw.loss),
     vramUsage |-> raw.vram,
     intelligenceScore |-> Max(0, raw.iq),
     gradientNorm |-> raw.grad]

Clamp(raw) ==
    [loss |-> Max(0, raw.loss),
     vramUsage |-> Min(VramCeiling * Milli, raw.vram),
     intelligenceScore |-> Max(0, raw.iq),
     gradientNorm |-> raw.grad]

Metrics(r, st, k) == Clamp(RawMetrics(r, st, k))

\* -------------------------------------------------------------- AutoDriver
\* Date.now() enters the program only through sin and cos of now * 0.5,
\* now * 2.5 and now + base, all of period 4 pi seconds: the clock is read in
\* milliseconds modulo that period.
ClockValues == {0, 3142}

\* animate (App): the clamped target, in 1/Milli, at clock nowMs with noise level k.
TargetRank(nowMs, k) ==
    LET base   == (Sin(nowMs \div 2) * 30 * Milli) \div 1000
        jitter == (Sin((nowMs * 5) \div 2) * 10 * Milli) \div 1000
        noise  == Centered(k, 5, Milli)
        raw    == 50 * Milli + base + jitter + noise
    IN  IF raw < 0 THEN 0 ELSE IF raw > 100 * Milli THEN 100 * Milli ELSE raw

\* The smoothing factor 5 in place of 0.05.
SmoothOvershoot(prev, target) ==
    Round(prev * Milli + (target - prev * Milli) * 5, Milli)

\* setRank(prev => Math.round(prev + (targetRank - prev) * 0.05))
Smooth(prev, target) ==
    Round(100 * prev * Milli + (target - prev * Milli) * 5, 100 * Milli)

\* ------------------------------------------------------------ ParticleBody
\* v * num / den, rounded toward zero.
Mul(v, num, den) ==
    IF v >= 0 THEN (v * num) \div den ELSE -(((-v) * num) \div den)

Rgba(r, g, b, alpha) == [r |-> r, g |-> g, b |-> b, alpha |-> alpha]

\* The constructor with width and height exchanged.
NewParticleSwapped(width, height, seed, n) ==
    LET x == (Random(seed, n) * height * SubPixel) \div RandLevels
        y == (Random(seed, n + 1) * width * SubPixel) \div RandLevels
    IN  [x |-> x, y |-> y,
         vx |-> Centered(Random(seed, n + 2), 2, SubPixel),
         vy |-> Centered(Random(seed, n + 3), 2, SubPixel),
         size |-> (Random(seed, n + 4) * 2 * SubPixel) \div RandLevels + SubPixel,
         baseX |-> x, baseY |-> y,
         color |-> Rgba(100, 255, 218, 500)]

\* new Particle(width, height), n values after generator state seed.
NewParticle(width, height, seed, n) ==
    LET x == (Random(seed, n) * width * SubPixel) \div RandLevels
        y == (Random(seed, n + 1) * height * SubPixel) \div RandLevels
    IN  [x |-> x, y |-> y,
         vx |-> Centered(Random(seed, n + 2), 2, SubPixel),
         vy |-> Centered(Random(seed, n + 3), 2, SubPixel),
         size |-> (Random(seed, n + 4) * 2 * SubPixel) \div RandLevels + SubPixel,
         baseX |-> x, baseY |-> y,
         color |-> Rgba(100, 255, 218, 500)]

\* The regime's velocity and colour rule of Particle.update.
Force(p, rank, width, height, seed, n, nowMs) ==
    LET centerX == (width * SubPixel) \div 2
        centerY == (height * SubPixel) \div 2
    IN  IF rank < 30 THEN
            LET dx == centerX - p.x
                dy == centerY - p.y
            IN  [p EXCEPT !.vx = Mul(p.vx + Mul(dx, 5, 1000), 9, 10),
                          !.vy = Mul(p.vy + Mul(dy, 5, 1000), 9, 10),
                          !.color = Rgba(100, 116, 139, 500 + ((30 - rank) * 1000) \div 60)]
        ELSE IF rank > 70 THEN
            LET jx == Mul(Centered(Random(seed, n), rank - 70, SubPixel), 1, 10)
                jy == Mul(Centered(Random(seed, n + 1), rank - 70, SubPixel), 1, 10)
                dx == p.x - centerX
                dy == p.y - centerY
                near == dx * dx + dy * dy < (RepelRadius * SubPixel) * (RepelRadius * SubPixel)
            IN  [p EXCEPT !.vx = p.vx + jx + (IF near THEN Mul(dx, 1, 100) ELSE 0),
                          !.vy = p.vy + jy + (IF near THEN Mul(dy, 1, 100) ELSE 0),
                          !.color = Rgba(244, 63, 94, 500 + ((rank - 70) * 1000) \div 60)]
        ELSE
            LET targetX == p.baseX + Mul(Sin(nowMs + (p.baseY * 1000) \div SubPixel), 20 * SubPixel, 1000)
                targetY == p.baseY + Mul(Cos(nowMs + (p.baseX * 1000) \div SubPixel), 20 * SubPixel, 1000)
                dx == targetX - p.x
                dy == targetY - p.y
            IN  [p EXCEPT !.vx = Mul(p.vx + Mul(dx, 1, 100), 95, 100),
                          !.vy = Mul(p.vy + Mul(dy, 1, 100), 95, 100),
                          !.color = Rgba(34, 211, 238, 600)]

\* Particle.update without its boundary checks.
WrapNever(v, limit, rank) == v

\* The boundary check of one coordinate against its limit (width or height).
Wrap(v, limit, rank) ==
    IF rank > 70
    THEN LET v1 == IF v < 0 THEN limit ELSE v
         IN  IF v1 > limit THEN 0 ELSE v1
    ELSE v

\* Particle.update(rank, width, height, ctx): force, integration, boundary check.
Update(p, rank, width, height, seed, n, nowMs) ==
    LET q == Force(p, rank, width, height, seed, n, nowMs)
    IN  [q EXCEPT !.x = Wrap(q.x + q.vx, width * SubPixel, rank),
                  !.y = Wrap(q.y + q.vy, height * SubPixel, rank)]

\* Math.random() calls and Date.now() reads of one update at `rank`.
UpdateDraws(rank) == IF rank > 70 THEN 2 ELSE 0

ClockFor(rank) == IF rank < 30 \/ rank > 70 THEN {0} ELSE ClockValues

\* --------------------------------------------------------- ProximityLinker
Linked(a, b) ==
    (a.x - b.x) * (a.x - b.x) + (a.y - b.y) * (a.y - b.y)
        < (LinkDistance * SubPixel) * (LinkDistance * SubPixel)

\* The pairs i < j of ps closer than LinkDistance (the nested loops of animate).
Pairs(ps) ==
    UNION {{<<i, j>> : j \in {k \in (i + 1)..Len(ps) : Linked(ps[i], ps[k])}} :
           i \in 1..Len(ps)}

\* animate without the test rank < 80.
ProximityEdgesUngated(ps, rank) == Pairs(ps)

\* The pairs animate (MatrixParticles) strokes in a frame drawn with `rank`.
ProximityEdges(ps, rank) ==
    IF rank < LinkGate THEN Pairs(ps) ELSE {}

\* The canvas calls of Particle.update for n particles, in order: each
\* particle is moved ("update") and then drawn ("fill") before the next one.
UpdateSteps(n) == [k \in 1..(2 * n) |-> IF k % 2 = 1 THEN "update" ELSE "fill"]

\* The frame with the connections computed before the particles are updated.
FrameStepsLinkFirst(n, rank) ==
    <<"fillRect">> \o (IF rank < LinkGate THEN <<"link">> ELSE <<>>)
        \o UpdateSteps(n) \o (IF rank < LinkGate THEN <<"stroke">> ELSE <<>>)

\* The steps of one run of animate (MatrixParticles) on n particles, in order:
\* the trail fill, the updates, then the nested loops ("link") and ctx.stroke().
FrameSteps(n, rank) ==
    <<"fillRect">> \o UpdateSteps(n)
        \o (IF rank < LinkGate THEN <<"link", "stroke">> ELSE <<>>)

\* ------------------------------------------------------------------- state
VARIABLES
    mounted,        \* the App tree is rendered into the page
    rank,           \* App: useState(50)
    isSimulating,   \* App: useState(false)
    status,         \* App: useMemo status
    metrics,        \* App: useMemo metrics
    requestRef,     \* App: requestRef.current
    targetRank,     \* App animate: the target of the latest tick, in 1/Milli
    ticks,          \* number of AutoDriver ticks run
    events,         \* number of user and window events handled
    client,         \* the canvas parent's clientWidth and clientHeight
    rng,            \* the state of Math.random()'s generator
    rafQueue,       \* the browser's pending animation-frame callbacks
    nextHandle,     \* the latest handle requestAnimationFrame returned
    animationRef,   \* MatrixParticles: animationRef.current
    effectRank,     \* MatrixParticles: the rank prop its live effect closed over
    listening,      \* MatrixParticles: resize is a listener of window 'resize'
    canvas,         \* MatrixParticles: canvas.width and canvas.height
    particles,      \* MatrixParticles: particles.current
    frame           \* the latest frame drawn: its rank, its edges, frames so far

vars == <<mounted, rank, isSimulating, status, metrics, requestRef, targetRank,
          ticks, events, client, rng, rafQueue, nextHandle, animationRef, effectRank,
          listening, canvas, particles, frame>>

appVars == <<mounted, rank, isSimulating, status, metrics, targetRank, ticks>>

\* The slider positions and the parent sizes the environment produces.
SliderValues == {0, 75, 85, 100}

ClientSizes == {<<0, 0>>, <<320, 480>>}

\* The generator states the page can load with.
Seeds == {0, 1}

\* ------------------------------------------------- browser and refs, as one
\* The part of the state the effects and callbacks of both components act on.
World ==
    [queue |-> rafQueue, next |-> nextHandle, rng |-> rng,
     requestRef |-> requestRef, animationRef |-> animationRef,
     effectRank |-> effectRank, listening |-> listening, canvas |-> canvas,
     particles |-> particles, frame |-> frame]

Commit(w) ==
    /\ rafQueue' = w.queue
    /\ nextHandle' = w.next
    /\ rng' = w.rng
    /\ requestRef' = w.requestRef
    /\ animationRef' = w.animationRef
    /\ effectRank' = w.effectRank
    /\ listening' = w.listening
    /\ canvas' = w.canvas
    /\ particles' = w.particles
    /\ frame' = w.frame

\* cancelAnimationFrame(id)
Cancel(queue, id) == {c \in queue : c.id # id}

\* ---------------------------------------------------------- SimulationField
\* resize constructing its particles with width and height exchanged.
ResizeSwapped(w, size) ==
    LET width  == IF size[1] = 0 THEN DefaultWidth ELSE size[1]
        height == IF size[2] = 0 THEN DefaultHeight ELSE size[2]
    IN  [w EXCEPT !.canvas = [width |-> width, height |-> height],
                  !.particles = [i \in 1..PopulationSize |->
                                    NewParticleSwapped(width, height, w.rng, 5 * (i - 1))],
                  !.rng = Advance(@, 5 * PopulationSize)]

\* resize (MatrixParticles): size the canvas to its parent, repopulate.
Resize(w, size) ==
    LET width  == IF size[1] = 0 THEN DefaultWidth ELSE size[1]
        height == IF size[2] = 0 THEN DefaultHeight ELSE size[2]
    IN  [w EXCEPT !.canvas = [width |-> width, height |-> height],
                  !.particles = [i \in 1..PopulationSize |->
                                    NewParticle(width, height, w.rng, 5 * (i - 1))],
                  !.rng = Advance(@, 5 * PopulationSize)]

\* animate (MatrixParticles), as closed over rank r: one frame, then reschedule.
Animate(w, r, nowMs) ==
    LET ps == [i \in 1..Len(w.particles) |->
                  Update(w.particles[i], r, w.canvas.width, w.canvas.height,
                         w.rng, UpdateDraws(r) * (i - 1), nowMs)]
        id == w.next + 1
    IN  [w EXCEPT !.particles = ps,
                  !.rng = Advance(@, UpdateDraws(r) * Len(w.particles)),
                  !.frame = [rank |-> r, edges |-> ProximityEdges(ps, r),
                             count |-> @.count + 1,
                             steps |-> FrameSteps(Len(w.particles), r)],
                  !.animationRef = id,
                  !.next = id,
                  !.queue = @ \cup {[id |-> id, loop |-> "render", rank |-> r]}]

\* The cleanup without cancelAnimationFrame(animationRef.current).
FieldCleanupNoCancel(w) == [w EXCEPT !.listening = FALSE]

\* The cleanup the effect of MatrixParticles returned.
FieldCleanup(w) ==
    [w EXCEPT !.listening = FALSE, !.queue = Cancel(@, w.animationRef)]

\* The effect of MatrixParticles for rank prop r.
FieldEffect(w, r, size, nowMs) ==
    Animate([Resize(w, size) EXCEPT !.listening = TRUE, !.effectRank = r], r, nowMs)

\* React re-running the effect because its dependency [rank] changed to r.
FieldRerun(w, r, size, nowMs) ==
    FieldEffect(FieldCleanup(w), r, size, nowMs)

\* Passive effects still pending are run before the next render starts.
FlushPending(w, size, nowMs) ==
    IF w.effectRank # rank THEN FieldRerun(w, rank, size, nowMs) ELSE w

\* ------------------------------------------------------ App: the drive loop
\* The cleanup the Simulation Logic effect returned while simulating.
DriveCleanup(w) == [w EXCEPT !.queue = Cancel(@, w.requestRef)]

\* The Simulation Logic effect for isSimulating = sim.
DriveEffect(w, sim) ==
    IF ~sim THEN [w EXCEPT !.queue = Cancel(@, w.requestRef)]
    ELSE LET id == w.next + 1
         IN  [w EXCEPT !.requestRef = id, !.next = id,
                       !.queue = @ \cup {[id |-> id, loop |-> "drive", rank |-> 0]}]

\* React re-running the effect because its dependency [isSimulating] changed.
DriveRerun(w, was, sim) ==
    IF was = sim THEN w
    ELSE DriveEffect(IF was THEN DriveCleanup(w) ELSE w, sim)

\* A render of App with rank r: the memoised status and metrics, and the
\* generator after the render.
MemoDraws(r) == IF r # rank /\ Status(r) = "STABLE" THEN 1 ELSE 0

Render(w, r) ==
    /\ status' = Status(r)
    /\ metrics' = IF r = rank THEN metrics
                  ELSE Metrics(r, Status(r), Random(w.rng, 0))

Rendered(w, r) == [w EXCEPT !.rng = Advance(@, MemoDraws(r))]

\* The end of animate (App) without the assignment to requestRef.current.
RescheduleUntracked(w, c) ==
    LET id == w.next + 1
    IN  [w EXCEPT !.next = id,
                  !.queue = (@ \ {c}) \cup {[id |-> id, loop |-> "drive", rank |-> 0]}]

\* The end of animate (App): requestRef.current = requestAnimationFrame(animate),
\* the callback c that is running having left the queue.
Reschedule(w, c) ==
    LET id == w.next + 1
    IN  [w EXCEPT !.requestRef = id, !.next = id,
                  !.queue = (@ \ {c}) \cup {[id |-> id, loop |-> "drive", rank |-> 0]}]

\* The ranks of the frames a synchronous render to rank v runs: the pending
\* passive effect's, then the re-run effect's.
FrameRanks(v) ==
    (IF effectRank # rank THEN {rank} ELSE {}) \cup (IF v # rank THEN {v} ELSE {})

ClockAmong(ranks) ==
    IF \E r \in ranks : ClockFor(r) # {0} THEN ClockValues ELSE {0}

\* ----------------------------------------------------------------- actions
Init ==
    /\ mounted = FALSE
    /\ rank = InitialRank
    /\ isSimulating = FALSE
    /\ status = Status(InitialRank)
    /\ metrics = Metrics(InitialRank, Status(InitialRank), 0)
    /\ requestRef = 0
    /\ targetRank = 0
    /\ ticks = 0
    /\ events = 0
    /\ client = <<0, 0>>
    /\ rng \in Seeds
    /\ rafQueue = {}
    /\ nextHandle = 0
    /\ animationRef = 0
    /\ effectRank = InitialRank
    /\ listening = FALSE
    /\ canvas = [width |-> 300, height |-> 150]
    /\ particles = <<>>
    /\ frame = [rank |-> 0, edges |-> {}, count |-> 0, steps |-> <<>>]

\* The first render of <App/> and the first run of both effects.
Mount(nowMs) ==
    /\ ~mounted
    /\ events < MaxEvents
    /\ events' = events + 1
    /\ nextHandle < MaxHandle
    /\ mounted' = TRUE
    /\ rank' = InitialRank
    /\ isSimulating' = FALSE
    /\ status' = Status(InitialRank)
    /\ metrics' = Metrics(InitialRank, Status(InitialRank), Random(rng, 0))
    /\ LET w0 == [World EXCEPT !.rng = Advance(@, 1), !.requestRef = 0,
                               !.animationRef = 0, !.particles = <<>>,
                               !.canvas = [width |-> 300, height |-> 150]]
       IN  Commit(FieldEffect(DriveEffect(w0, FALSE), InitialRank, client, nowMs))
    /\ UNCHANGED <<targetRank, ticks, client>>

\* The tree is removed: both effects' cleanups run.
Unmount ==
    /\ mounted
    /\ events < MaxEvents
    /\ events' = events + 1
    /\ mounted' = FALSE
    /\ Commit(FieldCleanup(IF isSimulating THEN DriveCleanup(World) ELSE World))
    /\ UNCHANGED <<rank, isSimulating, status, metrics, targetRank, ticks, client>>

\* handleRankChange without its last statement.
StaysSimulating(sim) == sim

\* if (isSimulating) setIsSimulating(false): isSimulating after handleRankChange.
StopOnManual(sim) == IF sim THEN FALSE ELSE sim

\* handleRankChange: the slider is moved to n; e.target.value is its text.
HandleRankChange(n, nowMs) ==
    /\ mounted
    /\ events < MaxEvents
    /\ events' = events + 1
    /\ nextHandle + Cardinality(FrameRanks(ParseInt(ValueText(n)))) <= MaxHandle
    /\ LET v  == ParseInt(ValueText(n))
           w1 == FlushPending(World, client, nowMs)
           w2 == DriveRerun(Rendered(w1, v), isSimulating, StopOnManual(isSimulating))
           w3 == IF v # w2.effectRank THEN FieldRerun(w2, v, client, nowMs) ELSE w2
       IN  /\ rank' = v
           /\ isSimulating' = StopOnManual(isSimulating)
           /\ Render(w1, v)
           /\ Commit(w3)
    /\ UNCHANGED <<mounted, targetRank, ticks, client>>

\* onClick of the simulate button: setIsSimulating(!isSimulating).
ToggleSimulation(nowMs) ==
    /\ mounted
    /\ events < MaxEvents
    /\ events' = events + 1
    /\ nextHandle + Cardinality(FrameRanks(rank)) + (IF isSimulating THEN 0 ELSE 1) <= MaxHandle
    /\ LET w1 == FlushPending(World, client, nowMs)
           w2 == DriveRerun(w1, isSimulating, ~isSimulating)
       IN  /\ isSimulating' = ~isSimulating
           /\ Commit(w2)
    /\ UNCHANGED <<mounted, rank, status, metrics, targetRank, ticks, client>>

\* The browser runs a queued animate of App: one AutoDriver tick.
DriveTick(c, nowMs) ==
    /\ c \in rafQueue
    /\ c.loop = "drive"
    /\ nextHandle < MaxHandle
    /\ LET t  == TargetRank(nowMs, Random(rng, 0))
           w1 == [World EXCEPT !.rng = Advance(@, 1)]
       IN  /\ targetRank' = t
           /\ rank' = Smooth(rank, t)
           /\ Render(w1, Smooth(rank, t))
           /\ Commit(Reschedule(Rendered(w1, Smooth(rank, t)), c))
    /\ ticks' = ticks + 1
    /\ UNCHANGED <<mounted, isSimulating, events, client>>

\* The browser runs a queued animate of MatrixParticles: one frame.
RenderFrame(c, nowMs) ==
    /\ c \in rafQueue
    /\ c.loop = "render"
    /\ nextHandle < MaxHandle
    /\ Commit(Animate([World EXCEPT !.queue = @ \ {c}], c.rank, nowMs))
    /\ UNCHANGED <<appVars, events, client>>

\* React runs the passive effect of MatrixParticles for the rank it rendered.
FlushEffect(nowMs) ==
    /\ mounted
    /\ effectRank # rank
    /\ nextHandle < MaxHandle
    /\ Commit(FieldRerun(World, rank, client, nowMs))
    /\ UNCHANGED <<appVars, events, client>>

\* The window is resized: the parent takes `size`; listeners of 'resize' run.
WindowResize(size) ==
    /\ events < MaxEvents
    /\ events' = events + 1
    /\ client' = size
    /\ Commit(IF listening THEN Resize(World, size) ELSE World)
    /\ UNCHANGED appVars

Next ==
    \/ \E nowMs \in ClockValues : Mount(nowMs)
    \/ Unmount
    \/ \E n \in SliderValues : \E nowMs \in ClockAmong(FrameRanks(n)) :
           HandleRankChange(n, nowMs)
    \/ \E nowMs \in ClockAmong(FrameRanks(rank)) : ToggleSimulation(nowMs)
    \/ \E c \in rafQueue, nowMs \in ClockValues : DriveTick(c, nowMs)
    \/ \E c \in rafQueue : \E nowMs \in ClockFor(c.rank) : RenderFrame(c, nowMs)
    \/ \E nowMs \in ClockFor(rank) : FlushEffect(nowMs)
    \/ \E size \in ClientSizes : WindowResize(size)

Spec == Init /\ [][Next]_vars

\* ------------------------------------------- the classifier on every rank
\* App rendered with any rank the slider can produce.
InitRegime ==
    /\ mounted = FALSE
    /\ rank \in SliderMin..SliderMax
    /\ isSimulating = FALSE
    /\ status = Status(rank)
    /\ metrics = Metrics(rank, status, 0)
    /\ requestRef = 0
    /\ targetRank = 0
    /\ ticks = 0
    /\ events = 0
    /\ client = <<0, 0>>
    /\ rng \in Seeds
    /\ rafQueue = {}
    /\ nextHandle = 0
    /\ animationRef = 0
    /\ effectRank = InitialRank
    /\ listening = FALSE
    /\ canvas = [width |-> 300, height |-> 150]
    /\ particles = <<>>
    /\ frame = [rank |-> 0, edges |-> {}, count |-> 0, steps |-> <<>>]

\* A render of App with rank n: both useMemo values are recomputed.
Classify(n) ==
    /\ rank' = n
    /\ Render(World, n)
    /\ rng' = Advance(rng, MemoDraws(n))
    /\ UNCHANGED <<mounted, isSimulating, requestRef, targetRank, ticks, events,
                   client, rafQueue, nextHandle, animationRef, effectRank,
                   listening, canvas, particles, frame>>

NextRegime == \E n \in SliderMin..SliderMax : Classify(n)

SpecRegime == InitRegime /\ [][NextRegime]_vars

\* ------------------------------------------------------------------ claims
DrivePending == {c \in rafQueue : c.loop = "drive"}

RenderPending == {c \in rafQueue : c.loop = "render"}

Anchors(ps) == [i \in 1..Len(ps) |-> <<ps[i].baseX, ps[i].baseY>>]

InBox(x, y) ==
    /\ 0 <= x /\ x < canvas.width * SubPixel
    /\ 0 <= y /\ y < canvas.height * SubPixel

InClosedBox(x, y) ==
    /\ 0 <= x /\ x <= canvas.width * SubPixel
    /\ 0 <= y /\ y <= canvas.height * SubPixel

\* C1: the derived status is Collapsed exactly when rank < 30, Exploding exactly
\* when rank > 70 and Stable otherwise, so 30 and 70 are both Stable.
C1_StatusThresholds ==
    /\ rank \in 0..100
    /\ (status = "COLLAPSED") <=> (rank < 30)
    /\ (status = "EXPLODING") <=> (rank > 70)
    /\ (status = "STABLE") <=> (30 <= rank /\ rank <= 70)

C1_Witness == rank = 30 /\ status = "STABLE" /\ rng \notin Seeds

\* C2: from rank 50, after any manual changes, start/stop toggles and AutoDriver
\* ticks, rank is an integer in [0,100] in every reachable state.
C2_RankInRange == rank \in 0..100

C2_Witness == mounted /\ ticks > 0 /\ rank > 95 /\ rank < 100

\* C3 as stated: every AutoDriver tick whose target differs from rank strictly
\* reduces the distance between rank and that target.
C3_StrictlyCloser ==
    [][ticks' = ticks + 1 =>
         (rank * Milli # targetRank' =>
            Abs(rank' * Milli - targetRank') < Abs(rank * Milli - targetRank'))]_vars

\* C3 amended: a tick never increases the distance between rank and its target,
\* strictly reduces it when the target is more than 10 away, and leaves rank
\* unchanged when the target is less than 10 away.
C3_NeverFarther ==
    [][ticks' = ticks + 1 =>
         LET before == Abs(rank * Milli - targetRank')
             after  == Abs(rank' * Milli - targetRank')
         IN  /\ after <= before
             /\ before > 10 * Milli => after < before
             /\ before < 10 * Milli => rank' = rank]_vars

C3_Witness == ticks > 0 /\ rank = 52 /\ targetRank > 80 * Milli

\* C4: a manual rank change leaves the AutoDriver not running, whether or not it
\* was running, and sets rank to the value the slider was moved to.
C4_ManualOverride ==
    [][\A n \in SliderValues :
          (\E nowMs \in ClockValues : HandleRankChange(n, nowMs))
              => (isSimulating' = FALSE /\ rank' = n)]_vars

C4_Witness == mounted /\ ~isSimulating /\ ticks > 0 /\ rank = 85 /\ DrivePending = {}

\* C5: once the drive loop is stopped (isSimulating false) or the tree is torn
\* down, no callback of the stopped loop is pending, so no tick or frame of it
\* runs afterwards.
C5_StoppedLoopsIdle ==
    /\ ~isSimulating => DrivePending = {}
    /\ ~mounted => rafQueue = {}

C5_Witness == mounted /\ ~isSimulating /\ ticks > 0 /\ requestRef > 0 /\ rank # 85 /\ rank # 75

\* C6: while the field is running it holds exactly 150 particles whose anchors
\* (their positions at creation) are inside the surface, and a resize leaves
\* every position inside the new surface.
C6_Populated ==
    /\ [](mounted =>
            /\ Len(particles) = 150
            /\ \A i \in 1..Len(particles) : InBox(particles[i].baseX, particles[i].baseY))
    /\ [][(particles' # particles /\ frame'.count = frame.count) =>
            \A i \in 1..Len(particles') :
                /\ 0 <= particles'[i].x /\ particles'[i].x < canvas'.width * SubPixel
                /\ 0 <= particles'[i].y /\ particles'[i].y < canvas'.height * SubPixel]_vars

C6_Witness ==
    mounted /\ canvas = [width |-> 320, height |-> 480] /\ Len(particles) = 150
            /\ \A i \in 1..Len(particles) : particles[i].x = particles[i].baseX

\* C7 as stated: after a frame drawn in the Exploding regime every particle is
\* inside the half-open box [0,width) x [0,height).
C7_HalfOpenBox ==
    (frame.count > 0 /\ frame.rank > 70) =>
        \A i \in 1..Len(particles) : InBox(particles[i].x, particles[i].y)

\* C7 amended: after a frame drawn in the Exploding regime every particle is
\* inside the closed box [0,width] x [0,height].
C7_ClosedBox ==
    (frame.count > 0 /\ frame.rank > 70) =>
        \A i \in 1..Len(particles) : InClosedBox(particles[i].x, particles[i].y)

C7_Witness ==
    /\ frame.count > 0 /\ frame.rank > 70
    /\ \E i \in 1..Len(particles) :
          \/ particles[i].x = canvas.width * SubPixel
          \/ particles[i].y = canvas.height * SubPixel

\* C8: a frame drawn with rank > 80 strokes no proximity edge.
C8_NoEdgesAbove80 == frame.rank > 80 => frame.edges = {}

C8_Witness ==
    /\ frame.count > 0 /\ frame.rank > 80 /\ frame.edges = {}
    /\ \E i, j \in 1..Len(particles) : i < j /\ Linked(particles[i], particles[j])

\* C9: memory (vramUsage) is in [0,80], loss >= 0 and capability
\* (intelligenceScore) >= 0 for every rank in [0,100].
C9_MetricsBounded ==
    /\ 0 <= metrics.vramUsage /\ metrics.vramUsage <= 80 * Milli
    /\ metrics.loss >= 0
    /\ metrics.intelligenceScore >= 0

C9_Witness == rank = 100 /\ metrics.vramUsage = 80 * Milli /\ metrics.intelligenceScore = 10 * Milli

\* C10 as stated: every frame that is drawn uses the rank of the moment it is
\* drawn; no frame runs with a rank that has since been replaced.
C10_FrameUsesRank ==
    [][frame'.count # frame.count => frame'.rank = rank']_vars

\* C11 as stated: a step that changes rank, or re-runs the field's effect for
\* a new rank, with the surface's dimensions unchanged leaves the population in
\* place: every particle keeps the anchor set at its creation.
C11_PopulationKept ==
    [][(mounted /\ mounted' /\ canvas' = canvas
            /\ (rank' # rank \/ effectRank' # effectRank))
          => Anchors(particles') = Anchors(particles)]_vars

\* C12 as stated: within a frame every particle update precedes the edge
\* computation, and the edge computation precedes the draw pass (the fill of
\* every particle and the stroke of the edges).
C12_LinkBeforeDraw ==
    \A i, j \in 1..Len(frame.steps) :
        /\ (frame.steps[i] = "update" /\ frame.steps[j] = "link") => i < j
        /\ (frame.steps[i] = "link" /\ frame.steps[j] \in {"fill", "stroke"}) => i < j

\* C12 amended: within a frame every particle update, together with the fill
\* that draws that particle, precedes the edge computation; the edge
\* computation reads the positions after the update and precedes the stroke of
\* the edges.
C12_UpdateLinkStroke ==
    /\ [](\A i, j \in 1..Len(frame.steps) :
            /\ (frame.steps[i] \in {"update", "fill"} /\ frame.steps[j] = "link") => i < j
            /\ (frame.steps[i] = "link" /\ frame.steps[j] = "stroke") => i < j)
    /\ [][frame'.count # frame.count =>
            frame'.edges = ProximityEdges(particles', frame'.rank)]_vars

C12_Witness ==
    /\ frame.count > 0 /\ frame.rank < 80 /\ frame.edges # {}
    /\ \E j \in 1..Len(frame.steps) : frame.steps[j] = "link"
    /\ \E i \in 1..Len(particles) : particles[i].x # particles[i].baseX

\* C13 as stated: a frame drawn with rank > 70 computes and strokes no
\* proximity edge.
C13_NoEdgesWhenExploding == frame.rank > 70 => frame.edges = {}

\* C14: in every reachable state each loop has at most one pending animation
\* frame callback, and when it has one it is the one its ref holds.
C14_OnePendingPerLoop ==
    /\ Cardinality(DrivePending) <= 1
    /\ Cardinality(RenderPending) <= 1
    /\ \A c \in DrivePending : c.id = requestRef
    /\ \A c \in RenderPending : c.id = animationRef

C14_Witness ==
    /\ mounted /\ isSimulating /\ rank = 75 /\ frame.count >= 2
    /\ Cardinality(DrivePending) = 1 /\ Cardinality(RenderPending) = 1

====
